---------------------------- MODULE Spec2Model ----------------------------
(***************************************************************************)
(* Model of the identity and authorization subsystem of Sanctum:           *)
(*   - lib/oidc-auth.js  (redirectToLogin, handleCallback, extractRoles,   *)
(*     handleLogout, requireOidcAuth, getCurrentUser), the manual OIDC     *)
(*     Authorization-Code-with-PKCE flow over an express session;          *)
(*   - lib/auth.js (RetryOAuth2Strategy._oauth2GetOAuthAccessToken), the   *)
(*     token exchange with retry and backoff.                              *)
(*                                                                         *)
(*   - lib/auth.js (requireRole, fetchOIDCUserInfo), the gate that         *)
(*     re-validates roles against the provider on every request.           *)
(*                                                                         *)
(* The specifications sharing the module:                                  *)
(*   Spec            one browser session served by concurrent handlers;    *)
(*   SpecHosts       login and callback under more than one host name;     *)
(*   SpecRetry       one call of the retrying token exchange;              *)
(*   SpecRetryLive   the same, with the fairness of the event loop;        *)
(*   SpecRoles       extractRoles applied to bounded claims objects;       *)
(*   SpecRequireRole requests through requireRole(role).                   *)
(***************************************************************************)
EXTENDS Integers, Sequences, FiniteSets, TLC

VARIABLES
    \* ---- Spec: the session and the requests on it
    session,      \* req.session: oidc_state, oidc_code_verifier, oidc_user, oidc_return_to
    req,          \* the requests being served: handler, position, inputs, locals
    nonce,        \* how many values generateState()/generatePKCE() have produced
    last,         \* the request whose handler finished in the last step, as it ended
    attempts,     \* history: per generated state, the login attempt it began
    \* ---- SpecRetry: RetryOAuth2Strategy._oauth2GetOAuthAccessToken
    attempt,      \* the loop variable
    rpc,          \* position in the method
    inflight,     \* token requests sent and not yet answered
    delays,       \* the backoff delays slept so far, in order
    outcomes,     \* how the token endpoint answered each attempt, in order
    \* ---- SpecRoles: extractRoles
    userInfo,     \* the claims object
    extracted,    \* the returned array, once applied
    applied,      \* whether extractRoles has been applied to userInfo
    \* ---- SpecRequireRole: requireRole(role)
    roleCheck     \* the passport session, the provider's claims, the request

mainVars  == <<session, req, nonce, last, attempts>>
retryVars == <<attempt, rpc, inflight, delays, outcomes>>
rolesVars == <<userInfo, extracted, applied>>
gateVars  == <<roleCheck>>
vars      == <<session, req, nonce, last, attempts,
               attempt, rpc, inflight, delays, outcomes,
               userInfo, extracted, applied,
               roleCheck>>

---------------------------------------------------------------------------
(* JavaScript values, as far as extractRoles inspects them.  A string is   *)
(* the sequence of its characters, so that toLowerCase and includes are    *)
(* computed rather than assumed.                                           *)

JsUndefined == [k |-> "undefined", s |-> <<>>, a |-> <<>>]
JsTrue      == [k |-> "true",      s |-> <<>>, a |-> <<>>]
JsFalse     == [k |-> "false",     s |-> <<>>, a |-> <<>>]
\* a truthy value that is neither a string, an array nor a boolean (42)
JsNumber    == [k |-> "number",    s |-> <<>>, a |-> <<>>]
JsStr(chars) == [k |-> "string",   s |-> chars, a |-> <<>>]
JsArr(elems) == [k |-> "array",    s |-> <<>>, a |-> elems]

\* JavaScript truthiness: undefined, false and "" are falsy
Truthy(v) == /\ v.k \notin {"undefined", "false"}
             /\ ~(v.k = "string" /\ v.s = <<>>)
IsArray(v)  == v.k = "array"
IsString(v) == v.k = "string"

UpperCase == <<"A","B","C","D","E","F","G","H","I","J","K","L","M",
               "N","O","P","Q","R","S","T","U","V","W","X","Y","Z">>
LowerCase == <<"a","b","c","d","e","f","g","h","i","j","k","l","m",
               "n","o","p","q","r","s","t","u","v","w","x","y","z">>

ToLowerChar(c) ==
    IF \E i \in DOMAIN UpperCase : UpperCase[i] = c
    THEN LowerCase[CHOOSE i \in DOMAIN UpperCase : UpperCase[i] = c]
    ELSE c

\* String.prototype.toLowerCase
ToLowerCase(str) == [i \in DOMAIN str |-> ToLowerChar(str[i])]

\* String.prototype.includes: sub occurs in str as a contiguous substring
Includes(str, sub) ==
    \E i \in 0..(Len(str) - Len(sub)) :
        \A j \in 1..Len(sub) : str[i + j] = sub[j]

\* Array.prototype.includes on an array of JavaScript values
ArrIncludes(arr, v) == \E i \in DOMAIN arr : arr[i] = v

\* [...new Set(arr)]: the first occurrence of each value, in insertion order
RECURSIVE UniqueInOrder(_)
UniqueInOrder(arr) ==
    IF arr = <<>> THEN <<>>
    ELSE LET init == UniqueInOrder(SubSeq(arr, 1, Len(arr) - 1))
             final == arr[Len(arr)]
         IN  IF ArrIncludes(init, final) THEN init ELSE Append(init, final)

S_user      == <<"u","s","e","r">>
S_admin     == <<"a","d","m","i","n">>
S_editors   == <<"e","d","i","t","o","r","s">>
S_SysAdmins == <<"S","y","s","A","d","m","i","n","s">>

\* a claims object: the fields extractRoles reads
Claims(groups, roles, role, is_admin, admin, authorities, permissions) ==
    [groups |-> groups, roles |-> roles, role |-> role, is_admin |-> is_admin,
     admin |-> admin, authorities |-> authorities, permissions |-> permissions]

EmptyClaims == Claims(JsUndefined, JsUndefined, JsUndefined, JsUndefined,
                      JsUndefined, JsUndefined, JsUndefined)

---------------------------------------------------------------------------
(* extractRoles (lib/oidc-auth.js; lib/auth.js holds the same function)    *)

\* roles.push(...userInfo.groups) if groups is an array
PushGroups(roles, u) ==
    IF Truthy(u.groups) /\ IsArray(u.groups) THEN roles \o u.groups.a ELSE roles

\* roles.push(...userInfo.roles) if roles is an array
PushRoles(roles, u) ==
    IF Truthy(u.roles) /\ IsArray(u.roles) THEN roles \o u.roles.a ELSE roles

\* roles.push(userInfo.role) if role is a non-empty string
PushRole(roles, u) ==
    IF Truthy(u.role) /\ IsString(u.role) THEN Append(roles, u.role) ELSE roles

\* roles.push('admin') if is_admin === true or admin === true
PushAdminClaim(roles, u) ==
    IF u.is_admin.k = "true" \/ u.admin.k = "true"
    THEN Append(roles, JsStr(S_admin)) ELSE roles

\* the fields scanned for "admin": roles, groups, authorities, permissions,
\* those of them that are arrays
AllRoleFields(u) ==
    SelectSeq(<<u.roles, u.groups, u.authorities, u.permissions>>, IsArray)

\* typeof role === 'string' && role.toLowerCase().includes('admin')
NamesAdmin(role) == IsString(role) /\ Includes(ToLowerCase(role.s), S_admin)

\* the inner loop: one push of 'admin' per element naming admin
RECURSIVE ScanField(_, _)
ScanField(roles, elems) ==
    IF elems = <<>> THEN roles
    ELSE ScanField(IF NamesAdmin(Head(elems))
                   THEN Append(roles, JsStr(S_admin)) ELSE roles,
                   Tail(elems))

\* the outer loop over allRoleFields
RECURSIVE ScanFields(_, _)
ScanFields(roles, fields) ==
    IF fields = <<>> THEN roles
    ELSE ScanFields(ScanField(roles, Head(fields).a), Tail(fields))

\* mutant of FinalRoles: the array is returned without removing duplicates
FinalRolesNoDedupe(roles) == roles

\* const finalRoles = [...new Set(roles)]
FinalRoles(roles) == UniqueInOrder(roles)

extractRoles(u) ==
    FinalRoles(
        ScanFields(
            PushAdminClaim(
                PushRole(PushRoles(PushGroups(<<JsStr(S_user)>>, u), u), u), u),
            AllRoleFields(u)))

---------------------------------------------------------------------------
(* Spec: one browser session.  session is the session object the handlers  *)
(* of that browser's requests read and write as req.session; destroying it *)
(* leaves the browser with an empty session.  A handler runs from one      *)
(* await or callback to the next in one step, so handlers of different     *)
(* requests interleave at those points and nowhere else.                   *)
(*                                                                         *)
(* csrf states and PKCE verifiers are numbered: the n-th redirectToLogin   *)
(* generates state n and verifier n.  0 stands for undefined, -1 for a     *)
(* value the program never generated.  An authorization code or a token is *)
(* 1 when present: the provider's answers are not derived from them.       *)

\* how many times redirectToLogin may run
MaxLogins == 2
\* how many requests are being served at once
NumSlots == 2

Slots == 1..NumSlots

EmptySession ==
    [oidc_state |-> 0, oidc_code_verifier |-> 0, oidc_user |-> <<>>,
     oidc_return_to |-> ""]

\* a slot no request occupies
NoRequest ==
    [h |-> "none", pc |-> "free",
     host |-> "",
     qstate |-> 0, qcode |-> 0, json |-> FALSE, xhr |-> FALSE,
     role |-> <<>>, url |-> "",
     status |-> 0, loc |-> "", body |-> "", log |-> "",
     user |-> <<>>, token |-> 0, authState |-> 0,
     checked |-> FALSE, seen |-> 0, replay |-> FALSE,
     sent |-> 0, installed |-> FALSE, invoked |-> FALSE,
     saved |-> FALSE, replaced |-> FALSE, rechecks |-> 0,
     bodyUser |-> <<>>,
     tokenStatus |-> -1, userinfoStatus |-> -1, prior |-> <<>>,
     tokenParams |-> [code |-> 0, redirect_uri |-> "", code_verifier |-> 0]]

MainIdle ==
    /\ session = EmptySession
    /\ req = [r \in Slots |-> NoRequest]
    /\ nonce = 0
    /\ last = NoRequest
    /\ attempts = <<>>

RetryIdle ==
    /\ attempt = 1
    /\ rpc = "call"
    /\ inflight = 0
    /\ delays = <<>>
    /\ outcomes = <<>>

RolesIdle ==
    /\ userInfo = EmptyClaims
    /\ extracted = <<>>
    /\ applied = FALSE

\* no passport session, no request through requireRole
NoRoleCheck ==
    [authenticated |-> FALSE, accessToken |-> 0, loginClaims |-> EmptyClaims,
     provider |-> EmptyClaims,
     pc |-> "idle", role |-> <<>>, answer |-> -1, fresh |-> EmptyClaims,
     status |-> 0, invoked |-> FALSE, currentRoles |-> <<>>]

GateIdle == roleCheck = NoRoleCheck

\* the Host header requests normally carry, and the host names under which
\* the application can be reached
DefaultHost == "host"
Hosts == {"host", "alias"}

\* getClientConfig(req).redirect_uri: `${protocol}://${host}/callback`, host
\* being the Host header of the request at hand
RedirectUri(host) == "http://" \o host \o "/callback"
\* getOidcEndpoints().authorization_endpoint
AuthorizationEndpoint == "issuer/auth"

\* the required roles the routes pass to requireOidcAuth; <<>> is null
RequiredRoles == {<<>>, S_admin, S_editors}
\* the gated paths requested
GatedUrls == {"/settings"}

\* what the userinfo endpoint may say about the one user
ProviderClaims ==
    {EmptyClaims,
     Claims(JsArr(<<JsStr(S_editors)>>), JsUndefined, JsUndefined, JsUndefined,
            JsUndefined, JsUndefined, JsUndefined),
     Claims(JsUndefined, JsUndefined, JsUndefined, JsTrue,
            JsUndefined, JsUndefined, JsUndefined)}

\* an answer of the token or userinfo endpoint: a status, 0 for no answer
\* (fetch rejects)
ProviderAnswers == {0, 200, 400, 500}

\* the response is sent and the handler is over
Respond(q, status, loc, log) ==
    [q EXCEPT !.pc = "done", !.status = status, !.loc = loc, !.log = log]

Arrive(h) == [NoRequest EXCEPT !.h = h, !.pc = "run", !.host = DefaultHost]

\* a request arrives into the first slot that serves none
Free(r) == /\ req[r].h = "none"
           /\ \A r2 \in Slots : r2 < r => req[r2].h # "none"

\* the handler of r is over: its slot is free again.  last holds how it
\* ended until the next step of any handler, so while last names a request
\* the session is the session that request left behind; prior is the
\* principal the session held when the handler's last step began.
Finish(r, q) == /\ req' = [req EXCEPT ![r] = NoRequest]
                /\ last' = [q EXCEPT !.prior = session.oidc_user]

\* the handler of r goes on at its next await or callback
Continue(r, q) == /\ req' = [req EXCEPT ![r] = q]
                  /\ last' = NoRequest

\* history: the attempt of csrf state s has had a callback processed to its end
Completed(att, s) ==
    IF s \in DOMAIN att THEN [att EXCEPT ![s].completed = TRUE] ELSE att

---------------------------------------------------------------------------
(* redirectToLogin                                                         *)

\* mutant of generateState: every login attempt gets the same state
generateStateFixed(n) == 1

\* crypto.randomBytes(32).toString('hex'): a value no earlier call returned;
\* n values have been generated before
generateState(n) == n + 1

\* the codeVerifier of generatePKCE(), likewise fresh
generatePKCE(n) == n + 1

\* up to req.session.save(...): fresh state and verifier into the session;
\* the authorization URL is built, with the redirect_uri of this request
RedirectToLogin(r, q, sess, ret) ==
    /\ nonce < MaxLogins
    /\ nonce' = nonce + 1
    /\ session' = [sess EXCEPT !.oidc_state = generateState(nonce),
                               !.oidc_code_verifier = generatePKCE(nonce)]
    /\ Continue(r, [q EXCEPT !.pc = "saving", !.authState = nonce + 1])
    /\ attempts' = Append(attempts, [return_to |-> ret, disclosed |-> FALSE,
                                     completed |-> FALSE,
                                     redirect_uri |-> RedirectUri(q.host)])

\* GET /login sent to host
LoginFrom(r, host) ==
    /\ Free(r)
    /\ RedirectToLogin(r, [Arrive("login") EXCEPT !.host = host], session, "")
    /\ UNCHANGED retryVars
    /\ UNCHANGED gateVars
    /\ UNCHANGED rolesVars

\* GET /login
Login(r) == LoginFrom(r, DefaultHost)

\* mutant of AfterSave: the err of the save callback is not looked at
AfterSaveIgnoringErr(q, err) == [q EXCEPT !.pc = "delay50", !.saved = ~err]

\* the body of the save callback: 500 'Session error' on err, else the 50 ms
\* timer is set.  saved: the store has acknowledged the save.
AfterSave(q, err) ==
    IF err THEN Respond(q, 500, "", "session_save_error")
    ELSE [q EXCEPT !.pc = "delay50", !.saved = TRUE]

\* the callback of req.session.save
SessionSaved(r, err) ==
    /\ req[r].pc = "saving"
    /\ LET q == AfterSave(req[r], err)
       IN  IF q.pc = "done" THEN Finish(r, q) ELSE Continue(r, q)
    /\ UNCHANGED <<session, nonce, attempts>>
    /\ UNCHANGED retryVars
    /\ UNCHANGED gateVars
    /\ UNCHANGED rolesVars

\* the timer fires: res.redirect(authUrl), which tells the browser (and the
\* provider) the state of this attempt
RedirectToProvider(r) ==
    /\ req[r].pc = "delay50"
    /\ Finish(r, Respond(req[r], 302, AuthorizationEndpoint, ""))
    /\ attempts' = [attempts EXCEPT ![req[r].authState].disclosed = TRUE]
    /\ UNCHANGED <<session, nonce>>
    /\ UNCHANGED retryVars
    /\ UNCHANGED gateVars
    /\ UNCHANGED rolesVars


---------------------------------------------------------------------------
(* handleCallback                                                          *)

\* mutant of StateCheckFails: only an absent state is refused
StateCheckFailsAbsentOnly(state, stored) == state = 0

\* if (!state || state !== req.session.oidc_state)
StateCheckFails(state, stored) == state = 0 \/ state # stored

\* the state check, the code check and the start of the 3 s wait
VerifyCallback(r, q) ==
    LET q1 == [q EXCEPT !.checked = TRUE, !.seen = session.oidc_state]
    IN  /\ IF StateCheckFails(q.qstate, session.oidc_state)
           THEN Finish(r, Respond(q1, 400, "", "state_mismatch"))
           ELSE IF q.qcode = 0
                THEN Finish(r, Respond(q1, 400, "", "missing_code"))
                ELSE Continue(r, [q1 EXCEPT !.pc = "wait3s"])
        /\ attempts' =
                IF ~StateCheckFails(q.qstate, session.oidc_state) /\ q.qcode = 0
                THEN Completed(attempts, q.qstate) ELSE attempts
        /\ UNCHANGED session

\* a generated state is unguessable: a request can carry it only once a
\* redirect to the provider has carried it
Disclosed(st) ==
    st \in {0, -1} \/ (st \in DOMAIN attempts /\ attempts[st].disclosed)

\* GET /callback?code=cd&state=st sent to host, up to the first await
CallbackFrom(r, st, cd, host) ==
    /\ Free(r)
    /\ Disclosed(st)
    /\ LET q == [Arrive("callback") EXCEPT
                    !.host = host,
                    !.qstate = st, !.qcode = cd,
                    !.replay = (st \in DOMAIN attempts /\ attempts[st].completed)]
       IN  IF session.oidc_state = 0 /\ st # 0
           THEN /\ Continue(r, [q EXCEPT !.pc = "wait100"])
                /\ UNCHANGED <<session, attempts>>
           ELSE VerifyCallback(r, q)
    /\ UNCHANGED nonce
    /\ UNCHANGED retryVars
    /\ UNCHANGED gateVars
    /\ UNCHANGED rolesVars

\* GET /callback?code=cd&state=st
Callback(r, st, cd) == CallbackFrom(r, st, cd, DefaultHost)

\* mutant of StillMissing: the second look always finds the session data
StillMissingNever(sess) == FALSE

\* if (!req.session.oidc_state) after the wait
StillMissing(sess) == sess.oidc_state = 0

\* after the 100 ms wait: still no oidc_state starts destroying the session,
\* otherwise the handler goes on to the state check.  rechecks counts the
\* second looks, seen is what this one found.
CallbackRecheck(r) ==
    /\ req[r].pc = "wait100"
    /\ LET q == [req[r] EXCEPT !.rechecks = @ + 1, !.seen = session.oidc_state]
       IN  IF StillMissing(session)
           THEN /\ Continue(r, [q EXCEPT !.pc = "destroying"])
                /\ UNCHANGED <<session, attempts>>
           ELSE VerifyCallback(r, q)
    /\ UNCHANGED nonce
    /\ UNCHANGED retryVars
    /\ UNCHANGED gateVars
    /\ UNCHANGED rolesVars

\* the callback of req.session.destroy: an err is logged, the redirect to
\* /login is sent either way; a destroy that failed leaves the session
CallbackSessionDestroyed(r, err) ==
    /\ req[r].h = "callback"
    /\ req[r].pc = "destroying"
    /\ session' = IF err THEN session ELSE EmptySession
    /\ Finish(r, Respond(req[r], 302, "/login", "no_context"))
    /\ UNCHANGED <<nonce, attempts>>
    /\ UNCHANGED retryVars
    /\ UNCHANGED gateVars
    /\ UNCHANGED rolesVars

\* after the 3 s wait: the token request is built from the session as it is
\* now and sent
CallbackSendToken(r) ==
    /\ req[r].pc = "wait3s"
    /\ Continue(r, [req[r] EXCEPT
                        !.pc = "token",
                        !.sent = @ + 1,
                        !.tokenParams =
                            [code |-> req[r].qcode,
                             redirect_uri |-> RedirectUri(req[r].host),
                             code_verifier |-> session.oidc_code_verifier]])
    /\ UNCHANGED <<session, nonce, attempts>>
    /\ UNCHANGED retryVars
    /\ UNCHANGED gateVars
    /\ UNCHANGED rolesVars

\* mutant of ResponseOk: every answer counts as ok
ResponseOkAlways(status) == TRUE

\* response.ok of fetch: a status in 200..299
ResponseOk(status) == status \in 200..299

\* the token endpoint answers: fetch rejecting ends in the catch block (500),
\* a status that is not ok in 400; on 200 the userinfo request is sent
TokenAnswered(r, status) ==
    /\ req[r].pc = "token"
    /\ LET q == [req[r] EXCEPT !.tokenStatus = status]
       IN  IF status = 0
           THEN Finish(r, Respond(q, 500, "", "exception"))
           ELSE IF ~ResponseOk(status)
                THEN Finish(r, Respond(q, 400, "", "token_exchange_failed"))
                ELSE Continue(r, [q EXCEPT !.pc = "userinfo",
                                           !.token = req[r].qcode])
    /\ attempts' = IF status = 0 \/ ~ResponseOk(status)
                   THEN Completed(attempts, req[r].qstate)
                   ELSE attempts
    /\ UNCHANGED <<session, nonce>>
    /\ UNCHANGED retryVars
    /\ UNCHANGED gateVars
    /\ UNCHANGED rolesVars

\* mutant of User: the login time is left out of the user object
UserWithoutLoginTime(claims, token) ==
    [id |-> "sub", email |-> "email", name |-> "name",
     roles |-> extractRoles(claims),
     accessToken |-> token, refreshToken |-> token]

\* the user object built from userinfo and the tokens
User(claims, token) ==
    [id |-> "sub", email |-> "email", name |-> "name",
     roles |-> extractRoles(claims),
     accessToken |-> token, refreshToken |-> token,
     loginTime |-> "now"]

\* mutant of InstallPrincipal: oidc_state and oidc_code_verifier are kept
InstallPrincipalKeepContext(sess, user) == [sess EXCEPT !.oidc_user = <<user>>]

\* req.session.oidc_user = user; delete req.session.oidc_state;
\* delete req.session.oidc_code_verifier: one synchronous block
InstallPrincipal(sess, user) ==
    [sess EXCEPT !.oidc_user = <<user>>,
                 !.oidc_state = 0,
                 !.oidc_code_verifier = 0]

\* res.redirect('/') at the end of a successful callback
SuccessRedirect(sess) == "/"

\* the userinfo endpoint answers: on 200 the user object is built (the local
\* user; replaced notes that the session held a principal before) and stored
\* in the session,
\* oidc_state and oidc_code_verifier are deleted and the browser is redirected
UserinfoAnswered(r, status, claims) ==
    /\ req[r].pc = "userinfo"
    /\ LET ok == status # 0 /\ ResponseOk(status)
           q == [req[r] EXCEPT !.userinfoStatus = status]
       IN  /\ session' =
                IF ok THEN InstallPrincipal(session, User(claims, req[r].token))
                ELSE session
           /\ Finish(r,
                  IF status = 0
                  THEN Respond(q, 500, "", "exception")
                  ELSE IF ~ok
                       THEN Respond(q, 400, "", "userinfo_failed")
                       ELSE Respond([q EXCEPT
                                        !.installed = TRUE,
                                        !.user = <<User(claims, req[r].token)>>,
                                        !.replaced = (session.oidc_user # <<>>)],
                                    302, SuccessRedirect(session'), "success"))
    /\ attempts' = Completed(attempts, req[r].qstate)
    /\ UNCHANGED nonce
    /\ UNCHANGED retryVars
    /\ UNCHANGED gateVars
    /\ UNCHANGED rolesVars

---------------------------------------------------------------------------
(* requireOidcAuth, getCurrentUser                                         *)

\* mutant of HasRequiredRole: admin no longer satisfies every requirement
HasRequiredRoleExact(userRoles, requiredRole) ==
    ArrIncludes(userRoles, JsStr(requiredRole))

\* userRoles.includes(requiredRole) || userRoles.includes('admin')
HasRequiredRole(userRoles, requiredRole) ==
    \/ ArrIncludes(userRoles, JsStr(requiredRole))
    \/ ArrIncludes(userRoles, JsStr(S_admin))

\* req.session.oidc_user || null
getCurrentUser(sess) == sess.oidc_user

\* mutant of RecordReturnTo: the requested path is not kept
RecordNoReturnTo(sess, url) == sess

\* req.session.oidc_return_to = req.originalUrl
RecordReturnTo(sess, url) == [sess EXCEPT !.oidc_return_to = url]

\* a request for url on a route wrapped in requireOidcAuth(role); acceptsJson
\* is the Accept header naming application/json, which the middleware
\* never reads.  The request's record keeps what its branch depends on or is
\* asked about: json where no principal is found, role where one is.
Gate(r, role, url, acceptsJson) ==
    /\ Free(r)
    /\ LET q == [Arrive("gate") EXCEPT !.url = url]
       IN  IF session.oidc_user = <<>>
           THEN RedirectToLogin(r, [q EXCEPT !.json = acceptsJson],
                                RecordReturnTo(session, url), url)
           ELSE /\ LET q1 == [q EXCEPT !.user = session.oidc_user,
                                       !.role = role]
                   IN  IF role # <<>>
                          /\ ~HasRequiredRole(q1.user[1].roles, role)
                       THEN Finish(r, Respond(q1, 403, "",
                                              "insufficient_permissions"))
                       ELSE Finish(r, Respond([q1 EXCEPT !.invoked = TRUE],
                                              200, "", ""))
                /\ UNCHANGED <<session, nonce, attempts>>
    /\ UNCHANGED retryVars
    /\ UNCHANGED gateVars
    /\ UNCHANGED rolesVars

\* mutant of UserResponse: the session's user object is sent as it is
UserResponseWhole(user) == user

\* the body of GET /user
UserResponse(user) ==
    [id |-> user.id, email |-> user.email, name |-> user.name,
     roles |-> user.roles, lastUpdated |-> user.loginTime, source |-> "oidc"]

\* GET /user: 401 without a principal, else its public fields as JSON
CurrentUser(r) ==
    /\ Free(r)
    /\ LET q == Arrive("user")
           user == getCurrentUser(session)
       IN  IF user = <<>>
           THEN Finish(r, Respond(q, 401, "", "not_authenticated"))
           ELSE Finish(r, Respond([q EXCEPT !.bodyUser = <<UserResponse(user[1])>>],
                                  200, "", ""))
    /\ UNCHANGED <<session, nonce, attempts>>
    /\ UNCHANGED retryVars
    /\ UNCHANGED gateVars
    /\ UNCHANGED rolesVars

---------------------------------------------------------------------------
(* handleLogout                                                            *)

\* `${endpoints.end_session_endpoint}?${logoutParams}`
LogoutUrl == "issuer/logout?post_logout_redirect_uri=http://host/"

\* POST /logout.  destroy is started and the response is sent at once; a
\* destroy that throws lands in the catch block.  acceptsJson and xhr are
\* the Accept header naming application/json and req.xhr.
Logout(r, acceptsJson, xhr, throws) ==
    /\ Free(r)
    /\ LET q == [Arrive("logout") EXCEPT !.json = acceptsJson, !.xhr = xhr]
       IN  IF throws
           THEN IF acceptsJson
                THEN Finish(r, Respond(q, 500, "", "logout_error"))
                ELSE Finish(r, Respond(q, 302, "/", "logout_error"))
           ELSE IF xhr \/ acceptsJson
                THEN Continue(r, [q EXCEPT !.pc = "destroying", !.status = 200,
                                           !.body = LogoutUrl])
                ELSE Continue(r, [q EXCEPT !.pc = "destroying", !.status = 302,
                                           !.loc = LogoutUrl])
    /\ UNCHANGED <<session, nonce, attempts>>
    /\ UNCHANGED retryVars
    /\ UNCHANGED gateVars
    /\ UNCHANGED rolesVars

\* the callback of req.session.destroy in handleLogout: an err is only
\* logged; a destroy that failed leaves the session
LogoutSessionDestroyed(r, err) ==
    /\ req[r].h = "logout"
    /\ req[r].pc = "destroying"
    /\ session' = IF err THEN session ELSE EmptySession
    /\ Finish(r, [req[r] EXCEPT !.pc = "done",
                                !.log = IF err THEN "destroy_error" ELSE ""])
    /\ UNCHANGED <<nonce, attempts>>
    /\ UNCHANGED retryVars
    /\ UNCHANGED gateVars
    /\ UNCHANGED rolesVars

---------------------------------------------------------------------------

Init ==
    /\ MainIdle
    /\ RetryIdle
    /\ RolesIdle
    /\ GateIdle

\* the state a callback request may carry: absent, never generated, or a
\* generated one; its code: absent or present
CallbackStates == {0, -1} \cup (1..MaxLogins)
CallbackCodes  == {0, 1}

Next ==
    \E r \in Slots :
        \/ Login(r)
        \/ \E err \in BOOLEAN : SessionSaved(r, err)
        \/ RedirectToProvider(r)
        \/ \E st \in CallbackStates, cd \in CallbackCodes : Callback(r, st, cd)
        \/ CallbackRecheck(r)
        \/ \E err \in BOOLEAN : CallbackSessionDestroyed(r, err)
        \/ CallbackSendToken(r)
        \/ \E status \in ProviderAnswers : TokenAnswered(r, status)
        \/ \E status \in ProviderAnswers :
             \E claims \in IF status = 200 THEN ProviderClaims ELSE {EmptyClaims} :
                UserinfoAnswered(r, status, claims)
        \/ \E role \in RequiredRoles, url \in GatedUrls, acceptsJson \in BOOLEAN :
                Gate(r, role, url, acceptsJson)
        \/ \E acceptsJson \in BOOLEAN, xhr \in BOOLEAN, throws \in BOOLEAN :
                Logout(r, acceptsJson, xhr, throws)
        \/ \E err \in BOOLEAN : LogoutSessionDestroyed(r, err)
        \/ CurrentUser(r)

Spec == Init /\ [][Next]_vars

\* SpecHosts: login and callback when the application is reached under more
\* than one host name (the session cookie is tied to neither port nor Host
\* header), one request at a time.
NextHosts ==
    \E r \in {s \in Slots : \A s2 \in Slots : s <= s2} :
        \/ \E host \in Hosts : LoginFrom(r, host)
        \/ \E err \in BOOLEAN : SessionSaved(r, err)
        \/ RedirectToProvider(r)
        \/ \E st \in CallbackStates, cd \in CallbackCodes, host \in Hosts :
                CallbackFrom(r, st, cd, host)
        \/ CallbackRecheck(r)
        \/ \E err \in BOOLEAN : CallbackSessionDestroyed(r, err)
        \/ CallbackSendToken(r)
        \/ \E status \in ProviderAnswers : TokenAnswered(r, status)
        \/ \E status \in ProviderAnswers :
             \E claims \in IF status = 200 THEN ProviderClaims ELSE {EmptyClaims} :
                UserinfoAnswered(r, status, claims)

SpecHosts == Init /\ [][NextHosts]_vars

---------------------------------------------------------------------------
(* Claims about the session and its handlers                               *)

\* every request the state describes: those being served and the one that
\* finished in the last step
Requests == {req[r] : r \in Slots} \cup {last}

RoleSet(arr) == {arr[i] : i \in DOMAIN arr}

\* the state check of q ran against a stored oidc_state that q's state
\* parameter, absent or present, does not equal
MismatchedCallback(q) ==
    /\ q.h = "callback"
    /\ q.checked
    /\ q.seen # 0
    /\ q.qstate # q.seen

\* C1: a callback whose state is absent or differs from the oidc_state the
\* session holds is answered 400, sends no token request and installs no
\* principal, whatever its code.
C1_StateMismatchRejected ==
    \A q \in Requests :
        MismatchedCallback(q) =>
            /\ q.pc = "done"
            /\ q.status = 400
            /\ q.sent = 0
            /\ ~q.installed

\* a callback carrying a code and a state the program never generated has
\* just been refused while the session held a pending login
C1_Witness ==
    /\ MismatchedCallback(last)
    /\ last.qstate = -1
    /\ last.qcode = 1
    /\ last.status = 400
    /\ session.oidc_state # 0

\* C2 (as claimed): a callback presenting the state of a login attempt that
\* a callback has already completed, in success or in failure, sends no
\* token request and installs no principal.
C2_CompletedAttemptRejected ==
    \A q \in Requests :
        (q.h = "callback" /\ q.replay) => (q.sent = 0 /\ ~q.installed)

\* C3 (as claimed): when handleCallback has finished with a failure, the
\* session holds neither oidc_state nor oidc_code_verifier, and the callback
\* installed no principal.
C3_FailureClearsPendingContext ==
    (last.h = "callback" /\ last.pc = "done" /\ last.log # "success") =>
        /\ session.oidc_state = 0
        /\ session.oidc_code_verifier = 0
        /\ ~last.installed

\* C4: for an authenticated principal and a required role R, the gate
\* invokes the protected operation iff the principal's roles contain R or
\* admin, and otherwise answers 403; {user, editors} is denied admin,
\* {user, admin} is granted it.
C4_GateDecision ==
    (last.h = "gate" /\ last.user # <<>> /\ last.role # <<>>) =>
        LET roles == RoleSet(last.user[1].roles)
        IN  /\ last.invoked <=>
                  (JsStr(last.role) \in roles \/ JsStr(S_admin) \in roles)
            /\ ~last.invoked => last.status = 403
            /\ (roles = {JsStr(S_user), JsStr(S_editors)} /\ last.role = S_admin)
                  => (~last.invoked /\ last.status = 403)
            /\ (roles = {JsStr(S_user), JsStr(S_admin)} /\ last.role = S_admin)
                  => last.invoked

\* a principal holding admin but not editors passed a gate requiring editors
C4_Witness ==
    /\ last.h = "gate"
    /\ last.role = S_editors
    /\ last.user # <<>>
    /\ RoleSet(last.user[1].roles) = {JsStr(S_user), JsStr(S_admin)}
    /\ last.invoked

\* C5 (as claimed): the successful callback of a login started with a return
\* path redirects to that path, and to the default "/" only when the login
\* recorded none.
C5_ReturnPathHonoured ==
    (last.h = "callback" /\ last.log = "success"
        /\ last.qstate \in DOMAIN attempts) =>
        last.loc = IF attempts[last.qstate].return_to # ""
                   THEN attempts[last.qstate].return_to
                   ELSE "/"

\* C6 (as claimed): once handleLogout has run, the session holds no
\* principal, also when destroying the session failed or threw.
C6_LogoutClearsPrincipal ==
    (last.h = "logout" /\ last.pc = "done") => getCurrentUser(session) = <<>>

\* C12: a request that reaches requireOidcAuth while the session holds no
\* principal never has the protected operation invoked; in the step it
\* arrives, the session records its path as oidc_return_to and redirectToLogin
\* starts a login attempt for it (a fresh oidc_state, the session save begun).
C12_GateRestartsLogin ==
    /\ [](\A q \in Requests :
            (q.h = "gate" /\ q.user = <<>>) => (~q.invoked /\ q.authState # 0))
    /\ [][\A r \in Slots :
            (req[r].h = "none" /\ req'[r].h = "gate") =>
                /\ session.oidc_user = <<>>
                /\ req'[r].pc = "saving"
                /\ session'.oidc_return_to = req'[r].url
                /\ session'.oidc_state = req'[r].authState
                /\ session'.oidc_state # session.oidc_state]_vars

\* an unauthenticated browser request for /settings has been sent to the
\* provider, its path kept in the session
C12_Witness ==
    /\ last.h = "gate"
    /\ ~last.json
    /\ last.url = "/settings"
    /\ last.status = 302
    /\ last.loc = AuthorizationEndpoint
    /\ session.oidc_return_to = "/settings"
    /\ ~last.invoked

\* C13 (as claimed): a request that names a machine-readable accept type and
\* reaches the gate while the session holds no principal is answered with an
\* unauthenticated error (401); no login attempt is started for it and it is
\* not redirected.
C13_ApiCallerGetsError ==
    \A q \in Requests :
        (q.h = "gate" /\ q.json /\ q.user = <<>>) =>
            /\ q.authState = 0
            /\ q.pc = "done" => (q.status = 401 /\ q.loc = "")

\* C14: redirectToLogin redirects to the provider only once the session
\* store has acknowledged the save of oidc_state and oidc_code_verifier; a
\* request whose save failed is answered 500 and is never redirected.
C14_SaveBeforeRedirect ==
    \A q \in Requests :
        /\ (q.h \in {"login", "gate"} /\ q.status = 302
                /\ q.loc = AuthorizationEndpoint) => q.saved
        /\ (q.pc \in {"delay50", "done"} /\ q.authState # 0 /\ ~q.saved) =>
                (q.pc = "done" /\ q.status = 500 /\ q.loc = "")

\* a login whose session save failed has been answered 500, the pending
\* state still in the session
C14_Witness ==
    /\ last.h = "login"
    /\ last.log = "session_save_error"
    /\ last.status = 500
    /\ session.oidc_state = last.authState

\* how handleCallback logs the failures (a) to (e): state failure, missing
\* code, token-exchange rejection, transient failure of a provider request,
\* userinfo failure
CallbackFailureKinds ==
    {"state_mismatch", "missing_code", "token_exchange_failed", "exception",
     "userinfo_failed"}

\* C15 (as claimed): every callback that fails by a state failure, a missing
\* code, a rejected or transiently failing token exchange or a failing
\* userinfo fetch is answered with a redirect to the login entry point,
\* never with an error response.
C15_FailuresRedirectToLogin ==
    (last.h = "callback" /\ last.pc = "done"
        /\ last.log \in CallbackFailureKinds) =>
        (last.status = 302 /\ last.loc = "/login")

\* the fields of a complete principal
PrincipalFields ==
    {"id", "email", "name", "roles", "accessToken", "refreshToken", "loginTime"}

CompletePrincipal(u) ==
    /\ DOMAIN u = PrincipalFields
    /\ u.id # "" /\ u.email # "" /\ u.name # "" /\ u.loginTime # ""
    /\ u.accessToken # 0
    /\ ArrIncludes(u.roles, JsStr(S_user))

LogoutOutcome(q) ==
    \/ (q.status = 302 /\ q.loc = LogoutUrl)
    \/ (q.status = 200 /\ q.body = LogoutUrl /\ q.loc = "")

\* C17 (as claimed): every logout request is answered with its logout
\* outcome; an error of the session destruction is only logged and never
\* turns the answer into a failure response.
C17_LogoutAlwaysCompletes ==
    \A q \in Requests :
        (q.h = "logout" /\ q.pc \in {"destroying", "done"}) => LogoutOutcome(q)

\* C18 (as claimed): handleLogout answers a browser navigation with a
\* redirect to the end-session endpoint carrying post_logout_redirect_uri =
\* the application's home, and a programmatic caller (Accept naming JSON, or
\* XHR) with the JSON result holding that URL and never with a redirect.
C18_LogoutByCallerType ==
    (last.h = "logout" /\ last.pc = "done") =>
        IF last.json \/ last.xhr
        THEN last.status = 200 /\ last.body = LogoutUrl /\ last.loc = ""
        ELSE last.status = 302 /\ last.loc = LogoutUrl /\ last.body = ""

\* C19: no response of the login, callback, logout, /user or gate handlers
\* carries the principal's accessToken or refreshToken: the only response
\* built from the principal, the body of /user, has neither field, and the
\* tokens stay in the session.
C19_TokensNeverInResponses ==
    \A q \in Requests :
        /\ q.bodyUser # <<>> =>
              /\ q.h = "user"
              /\ DOMAIN q.bodyUser[1] \cap {"accessToken", "refreshToken"} = {}
        /\ q.h # "user" => q.bodyUser = <<>>

\* /user has answered 200 with the public fields of a principal whose
\* tokens the session holds
C19_Witness ==
    /\ last.h = "user"
    /\ last.status = 200
    /\ last.bodyUser # <<>>
    /\ last.bodyUser[1].roles = session.oidc_user[1].roles
    /\ session.oidc_user[1].accessToken # 0
    /\ session.oidc_user[1].refreshToken # 0

C21_OrderedFailClosed ==
    \A q \in Requests :
        q.h = "callback" =>
            /\ q.sent > 0 =>
                  (q.checked /\ q.qstate # 0 /\ q.qstate = q.seen /\ q.qcode # 0)
            /\ (q.pc = "userinfo" \/ q.userinfoStatus # -1) =>
                  (q.sent > 0 /\ q.tokenStatus \in 200..299)
            /\ q.installed =>
                  (q.tokenStatus \in 200..299 /\ q.userinfoStatus \in 200..299)

\* a callback whose token exchange succeeded and whose userinfo fetch was
\* refused has ended without a principal
C21_Witness ==
    /\ last.h = "callback"
    /\ last.tokenStatus = 200
    /\ last.userinfoStatus = 400
    /\ last.status = 400
    /\ ~last.installed
    /\ session.oidc_user = <<>>

\* C22 (as claimed): the redirect_uri a callback sends to the token endpoint
\* equals the redirect_uri the authorization request of the same login
\* attempt carried.
C22_SameRedirectUri ==
    \A q \in Requests :
        (q.h = "callback" /\ q.sent > 0 /\ q.qstate \in DOMAIN attempts) =>
            q.tokenParams.redirect_uri = attempts[q.qstate].redirect_uri

\* C23 (as claimed): handleCallback retries a token request that failed at
\* transport level or with 5xx: such a failure is surfaced only after a
\* further token request.
C23_TransientTokenFailureRetried ==
    \A q \in Requests :
        (q.h = "callback" /\ q.pc = "done"
            /\ (q.tokenStatus = 0 \/ q.tokenStatus \in 500..599)) =>
            q.sent >= 2

\* C26: the step that installs a principal removes oidc_state and
\* oidc_code_verifier in the same step, so that no request ever finds the
\* new principal beside the pending context that produced it.
C26_InstallAndClearAtomic ==
    /\ [][(session'.oidc_user # session.oidc_user /\ session'.oidc_user # <<>>) =>
            (session'.oidc_state = 0 /\ session'.oidc_code_verifier = 0)]_vars
    /\ [](last.log = "success" =>
            /\ session.oidc_user = last.user
            /\ session.oidc_state # last.qstate
            /\ session.oidc_state = 0
            /\ session.oidc_code_verifier = 0)

\* a callback has just installed its principal while another request is
\* being served on the same session
C26_Witness ==
    /\ last.h = "callback"
    /\ last.log = "success"
    /\ \E r \in Slots : req[r].h \in {"gate", "login", "callback"}
    /\ session.oidc_user # <<>>
    /\ session.oidc_state = 0

\* C27 (as claimed): two callbacks carrying the same generated state and a
\* code, served at the same time, send at most one token request between
\* them.
C27_CodeRedeemedOnce ==
    \A r1 \in Slots : \A r2 \in Slots :
        (/\ r1 # r2
         /\ req[r1].h = "callback" /\ req[r2].h = "callback"
         /\ req[r1].qstate \in DOMAIN attempts
         /\ req[r1].qstate = req[r2].qstate
         /\ req[r1].qcode # 0 /\ req[r1].qcode = req[r2].qcode) =>
            req[r1].sent + req[r2].sent <= 1

\* C28 (as claimed): a callback that ends without success leaves the
\* principal the session held before: after it the principal is the one
\* that was there when its last step began.
C28_FailedCallbackKeepsPrincipal ==
    (last.h = "callback" /\ last.pc = "done" /\ last.log # "success"
        /\ last.prior # <<>>) =>
        session.oidc_user = last.prior

C30_LatestInitiationWins ==
    /\ [][nonce' # nonce =>
            /\ session'.oidc_state \notin 0..nonce
            /\ session'.oidc_code_verifier \notin 0..nonce]_vars
    /\ [](\A q \in Requests :
            (q.h = "callback" /\ q.checked /\ q.qstate \in DOMAIN attempts
                /\ q.seen \in DOMAIN attempts /\ q.qstate < q.seen) =>
                (q.pc = "done" /\ q.status = 400 /\ q.sent = 0 /\ ~q.installed))

\* login was initiated twice before any callback was processed; a callback
\* carrying the first state and a code has been refused
C30_Witness ==
    /\ last.h = "callback"
    /\ last.qstate = 1
    /\ last.qcode = 1
    /\ last.seen = 2
    /\ last.status = 400
    /\ ~attempts[1].completed
    /\ ~attempts[2].completed
    /\ session.oidc_state = 2

---------------------------------------------------------------------------
(* SpecRoles: extractRoles applied to the claims objects a provider can    *)
(* send.  The scalar claims and the shape of each array claim are drawn    *)
(* by InitRoles; AppendClaimValue grows the array claims.                  *)

\* the most values the array claims of one claims object hold in total
MaxClaimValues == 2

ArrayFields == {"groups", "roles", "authorities", "permissions"}

\* what an array claim holds: role names, a name containing "admin" in
\* mixed case, and a value that is no string
ElemValues == {JsStr(S_editors), JsStr(S_SysAdmins), JsNumber}

\* the single-string role claim: absent, a string, or no string
RoleValues == {JsUndefined, JsStr(S_user), JsStr(S_SysAdmins), JsNumber}

\* is_admin: absent, true, or a truthy value that is not the boolean true
IsAdminValues == {JsUndefined, JsTrue, JsNumber}
AdminValues   == {JsUndefined, JsTrue, JsFalse}

\* an array claim before any value is appended: absent, no array, or []
ArrayShapes == {JsUndefined, JsNumber, JsArr(<<>>)}

ClaimValueCount(u) ==
    Len(u.groups.a) + Len(u.roles.a) + Len(u.authorities.a) + Len(u.permissions.a)

InitRoles ==
    /\ MainIdle
    /\ RetryIdle
    /\ GateIdle
    /\ \E g \in ArrayShapes, r \in ArrayShapes, au \in ArrayShapes,
          pe \in ArrayShapes, ro \in RoleValues, ia \in IsAdminValues,
          ad \in AdminValues :
            userInfo = Claims(g, r, ro, ia, ad, au, pe)
    /\ extracted = <<>>
    /\ applied = FALSE

\* the provider puts one more value into an array claim
AppendClaimValue(f, e) ==
    /\ ~applied
    /\ IsArray(userInfo[f])
    /\ ClaimValueCount(userInfo) < MaxClaimValues
    /\ userInfo' = [userInfo EXCEPT ![f] = JsArr(Append(@.a, e))]
    /\ UNCHANGED <<extracted, applied>>
    /\ UNCHANGED mainVars
    /\ UNCHANGED retryVars
    /\ UNCHANGED gateVars

ApplyExtractRoles ==
    /\ ~applied
    /\ extracted' = extractRoles(userInfo)
    /\ applied' = TRUE
    /\ UNCHANGED userInfo
    /\ UNCHANGED mainVars
    /\ UNCHANGED retryVars
    /\ UNCHANGED gateVars

NextRoles ==
    \/ \E f \in ArrayFields, e \in ElemValues : AppendClaimValue(f, e)
    \/ ApplyExtractRoles

SpecRoles == InitRoles /\ [][NextRoles]_vars

---------------------------------------------------------------------------
(* Claims about extractRoles                                               *)

NoDuplicates(arr) ==
    \A i \in DOMAIN arr : \A j \in DOMAIN arr : arr[i] = arr[j] => i = j

GroupsEditorsClaims ==
    Claims(JsArr(<<JsStr(S_editors)>>), JsUndefined, JsUndefined, JsUndefined,
           JsUndefined, JsUndefined, JsUndefined)

\* C9: for every claims object, the role set extractRoles returns contains
\* the baseline role user and holds no value twice; for {} it is exactly
\* [user], and for {groups: [editors]} it contains editors and user.
C9_BaselineAndDistinct ==
    applied =>
        /\ ArrIncludes(extracted, JsStr(S_user))
        /\ NoDuplicates(extracted)
        /\ (userInfo = EmptyClaims => extracted = <<JsStr(S_user)>>)
        /\ (userInfo = GroupsEditorsClaims =>
                /\ ArrIncludes(extracted, JsStr(S_editors))
                /\ ArrIncludes(extracted, JsStr(S_user)))

\* extractRoles has run on a claims object that made it push a value it
\* already held (role "user" beside the baseline, or admin named twice)
C9_Witness ==
    /\ applied
    /\ \/ userInfo.role = JsStr(S_user)
       \/ (userInfo.is_admin = JsTrue /\ userInfo.admin = JsTrue)
    /\ ArrIncludes(extracted, JsStr(S_user))

\* the values extractRoles is said to collect: the elements of the four
\* array claims and the single-string role claim
CollectedValues(u) ==
    UNION {{u[f].a[i] : i \in DOMAIN u[f].a} : f \in ArrayFields}
    \cup (IF IsString(u.role) THEN {u.role} ELSE {})

\* C10 (as claimed): admin is in the result whenever is_admin or admin is
\* the boolean true, or any collected value (array element or the single
\* role string) contains "admin" case-insensitively.
C10_AdminPromotion ==
    applied =>
        ((\/ userInfo.is_admin = JsTrue
          \/ userInfo.admin = JsTrue
          \/ \E v \in CollectedValues(userInfo) : NamesAdmin(v))
         => ArrIncludes(extracted, JsStr(S_admin)))

\* C11 (as claimed): every string element of the array claims groups, roles,
\* authorities and permissions, and the single-string role claim when
\* present, is in the role set extractRoles returns.
C11_UnionOfRoleClaims ==
    applied =>
        \A v \in CollectedValues(userInfo) :
            IsString(v) => ArrIncludes(extracted, v)

---------------------------------------------------------------------------
(* SpecRequireRole: requireRole(role) of lib/auth.js, the gate of the      *)
(* privileged routes.  One passport session; the provider may change the   *)
(* user's claims at any moment; requests pass through the gate one after   *)
(* another.  roleCheck.pc is the position of the request: "idle" (none),   *)
(* "fetching" (awaiting the userinfo endpoint), "done" (response sent or   *)
(* next() called).  loginClaims is history: the claims the provider held   *)
(* when the session was established.                                       *)

\* the roles the privileged routes require
GateRoles == {S_admin, S_editors}

\* the passport sessions there may be: none, or one established while the
\* provider held claims c, with or without an access token in it
InitRequireRole ==
    /\ MainIdle
    /\ RetryIdle
    /\ RolesIdle
    /\ \E auth \in BOOLEAN, tok \in {0, 1}, c \in ProviderClaims :
        roleCheck = [NoRoleCheck EXCEPT
                        !.authenticated = auth,
                        !.accessToken = IF auth THEN tok ELSE 0,
                        !.loginClaims = IF auth THEN c ELSE EmptyClaims,
                        !.provider = c]

\* the provider changes what it says about the user
ClaimsChangedUpstream(c) ==
    /\ c # roleCheck.provider
    /\ roleCheck' = [roleCheck EXCEPT !.provider = c]
    /\ UNCHANGED mainVars
    /\ UNCHANGED retryVars
    /\ UNCHANGED rolesVars

\* mutant of currentRoles: the roles are those the claims of login time gave
currentRolesOfLogin(user, freshUserInfo) == extractRoles(user.loginClaims)

\* const currentRoles = extractRoles(freshUserInfo)
currentRoles(user, freshUserInfo) == extractRoles(freshUserInfo)

\* a request reaches requireRole(role): 401 without a passport session;
\* fetchOIDCUserInfo throws at once without an access token (500);
\* otherwise the userinfo request is sent
RequireRole(role) ==
    /\ roleCheck.pc = "idle"
    /\ LET q == [roleCheck EXCEPT !.role = role]
       IN  roleCheck' =
             IF ~q.authenticated
             THEN [q EXCEPT !.pc = "done", !.status = 401]
             ELSE IF q.accessToken = 0
                  THEN [q EXCEPT !.pc = "done", !.status = 500]
                  ELSE [q EXCEPT !.pc = "fetching"]
    /\ UNCHANGED mainVars
    /\ UNCHANGED retryVars
    /\ UNCHANGED rolesVars

\* the userinfo endpoint answers (0: fetch rejects) with the claims the
\* provider holds now: a failure is rethrown and caught (500); otherwise
\* the roles are extracted and either 403 is sent or next() is called
RequireRoleAnswered(status) ==
    /\ roleCheck.pc = "fetching"
    /\ LET q == [roleCheck EXCEPT !.pc = "done", !.answer = status]
       IN  roleCheck' =
             IF ~ResponseOk(status)
             THEN [q EXCEPT !.status = 500]
             ELSE LET freshUserInfo == roleCheck.provider
                      roles == currentRoles(roleCheck, freshUserInfo)
                  IN  IF ~HasRequiredRole(roles, q.role)
                      THEN [q EXCEPT !.fresh = freshUserInfo, !.status = 403]
                      ELSE [q EXCEPT !.fresh = freshUserInfo,
                                     !.currentRoles = roles,
                                     !.invoked = TRUE]
    /\ UNCHANGED mainVars
    /\ UNCHANGED retryVars
    /\ UNCHANGED rolesVars

\* the request is over; req.user of the next request is deserialized from
\* the session again, so currentRoles does not outlive the request
RequireRoleOver ==
    /\ roleCheck.pc = "done"
    /\ roleCheck' = [NoRoleCheck EXCEPT
                        !.authenticated = roleCheck.authenticated,
                        !.accessToken = roleCheck.accessToken,
                        !.loginClaims = roleCheck.loginClaims,
                        !.provider = roleCheck.provider]
    /\ UNCHANGED mainVars
    /\ UNCHANGED retryVars
    /\ UNCHANGED rolesVars

NextRequireRole ==
    \/ \E c \in ProviderClaims : ClaimsChangedUpstream(c)
    \/ \E role \in GateRoles : RequireRole(role)
    \/ \E status \in ProviderAnswers : RequireRoleAnswered(status)
    \/ RequireRoleOver

SpecRequireRole == InitRequireRole /\ [][NextRequireRole]_vars

---------------------------------------------------------------------------
(* Claims about requireRole                                                *)

\* C25: requireRole(R) decides on the roles extracted from the userinfo
\* fetched for this request, not on those of login time: the protected
\* operation is invoked only after a successful fetch whose claims give R
\* or admin; if those claims give neither, the answer is 403; if the fetch
\* fails, the answer is 500; in both cases the operation is not invoked.
C25_FreshRolesDecide ==
    (roleCheck.pc = "done" /\ roleCheck.authenticated) =>
        /\ roleCheck.invoked =>
              /\ ResponseOk(roleCheck.answer)
              /\ HasRequiredRole(extractRoles(roleCheck.fresh), roleCheck.role)
              /\ roleCheck.currentRoles = extractRoles(roleCheck.fresh)
              /\ roleCheck.status = 0
        /\ (ResponseOk(roleCheck.answer)
              /\ ~HasRequiredRole(extractRoles(roleCheck.fresh), roleCheck.role)) =>
              (roleCheck.status = 403 /\ ~roleCheck.invoked)
        /\ ~ResponseOk(roleCheck.answer) =>
              (roleCheck.status = 500 /\ ~roleCheck.invoked)

\* the session was established while the provider listed the user in group
\* editors; the group was removed upstream since; a request for a route
\* requiring editors is denied
C25_Witness ==
    /\ roleCheck.pc = "done"
    /\ roleCheck.role = S_editors
    /\ HasRequiredRole(extractRoles(roleCheck.loginClaims), S_editors)
    /\ roleCheck.answer = 200
    /\ roleCheck.fresh = EmptyClaims
    /\ roleCheck.status = 403
    /\ ~roleCheck.invoked

---------------------------------------------------------------------------
(* SpecRetry: RetryOAuth2Strategy._oauth2GetOAuthAccessToken (lib/auth.js) *)
(* One call of the method.  rpc is its position: "call" (about to call the *)
(* inherited exchange), "inflight" (awaiting its callback), "sleep"        *)
(* (awaiting the backoff timer), "returned", "thrown", "fellthrough".      *)

maxRetries == 3
baseDelay  == 1000

\* how the token endpoint answers one request: an HTTP status, or 0 for a
\* transport-level failure (no response)
TokenAnswers == {0, 200, 400, 401, 500, 503}

Is4xx(status)      == status \in 400..499
IsTransient(status) == status = 0 \/ status \in 500..599

\* mutant of BackoffDelay: the same delay before every retry
BackoffDelayFlat(n) == baseDelay

\* const delay = baseDelay * Math.pow(2, attempt - 1)
BackoffDelay(n) == baseDelay * 2^(n - 1)

InitRetry ==
    /\ MainIdle
    /\ RolesIdle
    /\ GateIdle
    /\ attempt = 1
    /\ rpc = "call"
    /\ inflight = 0
    /\ delays = <<>>
    /\ outcomes = <<>>

\* the loop body begins: the promise wraps one call of the inherited
\* exchange, which sends one request to the token endpoint
CallTokenEndpoint ==
    /\ rpc = "call"
    /\ inflight' = inflight + 1
    /\ rpc' = "inflight"
    /\ UNCHANGED <<attempt, delays, outcomes>>
    /\ UNCHANGED mainVars
    /\ UNCHANGED rolesVars
    /\ UNCHANGED gateVars

\* the inherited exchange calls back: resolve on success; on any err reject,
\* and the catch block either rethrows (last attempt) or starts the backoff
TokenAnswer(status) ==
    /\ rpc = "inflight"
    /\ inflight' = inflight - 1
    /\ outcomes' = Append(outcomes, status)
    /\ IF status = 200
       THEN /\ rpc' = "returned"
            /\ UNCHANGED delays
       ELSE IF attempt = maxRetries
            THEN /\ rpc' = "thrown"
                 /\ UNCHANGED delays
            ELSE /\ rpc' = "sleep"
                 /\ delays' = Append(delays, BackoffDelay(attempt))
    /\ UNCHANGED attempt
    /\ UNCHANGED mainVars
    /\ UNCHANGED rolesVars
    /\ UNCHANGED gateVars

\* the backoff timer fires: attempt++ and the loop condition
BackoffElapsed ==
    /\ rpc = "sleep"
    /\ attempt' = attempt + 1
    /\ rpc' = IF attempt + 1 <= maxRetries THEN "call" ELSE "fellthrough"
    /\ UNCHANGED <<inflight, delays, outcomes>>
    /\ UNCHANGED mainVars
    /\ UNCHANGED rolesVars
    /\ UNCHANGED gateVars

NextRetry ==
    \/ CallTokenEndpoint
    \/ \E status \in TokenAnswers : TokenAnswer(status)
    \/ BackoffElapsed

SpecRetry == InitRetry /\ [][NextRetry]_vars

\* SpecRetryLive: the same call under the scheduling the code has.  The
\* event loop runs a ready continuation and fires a started timer, so the
\* method's own steps are weakly fair.  The answer of the token endpoint is
\* delivered by the inherited exchange's callback only; the method arms no
\* timer next to it, so nothing obliges TokenAnswer to happen.
SpecRetryLive ==
    /\ InitRetry
    /\ [][NextRetry]_vars
    /\ WF_vars(CallTokenEndpoint)
    /\ WF_vars(BackoffElapsed)

---------------------------------------------------------------------------
(* Claims about the retrying token exchange                                *)

OnlyTransientFailures ==
    \A i \in DOMAIN outcomes : outcomes[i] = 200 \/ IsTransient(outcomes[i])

\* C7: while the token endpoint fails only with transport errors or 5xx,
\* the exchange is attempted one request at a time, at most maxRetries (3)
\* times, each retry after a delay strictly larger than the one before; it
\* returns at the first success and throws only after the third failure.
C7_SequentialBoundedBackoff ==
    OnlyTransientFailures =>
        /\ inflight <= 1
        /\ Len(outcomes) + inflight <= maxRetries
        /\ rpc \in {"call", "inflight"} => Len(delays) = attempt - 1
        /\ \A i \in 2..Len(delays) : delays[i] > delays[i - 1]
        /\ \A i \in 1..(Len(outcomes) - 1) : outcomes[i] # 200
        /\ rpc = "returned" <=>
              (outcomes # <<>> /\ outcomes[Len(outcomes)] = 200)
        /\ rpc = "thrown" => Len(outcomes) = maxRetries
        /\ rpc # "fellthrough"

\* three transient failures in a row: two growing delays, then the throw
C7_Witness ==
    /\ rpc = "thrown"
    /\ outcomes = <<500, 0, 503>>
    /\ delays = <<1000, 2000>>

\* C8 (as claimed): once the token endpoint has answered 4xx, exactly one
\* request has been sent, no backoff delay was taken and the failure has
\* been surfaced.
C8_NoRetryOn4xx ==
    (\E i \in DOMAIN outcomes : Is4xx(outcomes[i])) =>
        /\ Len(outcomes) = 1
        /\ inflight = 0
        /\ delays = <<>>
        /\ rpc = "thrown"

\* C24 (as claimed): a token request that has been sent does not stay
\* pending for ever: each attempt is bounded by a timeout, so the exchange
\* moves on (success, retry or failure) even when the token endpoint never
\* answers, and the callback request gets its response.
C24_HungCallEventuallyAbandoned ==
    (rpc = "inflight") ~> (rpc # "inflight")

=============================================================================
